---- MODULE Spec2Model ----
(***************************************************************************)
(* Model of src/src/index.ts (discord-interactions): verifyKey, the        *)
(* Ed25519 gate over timestamp ++ rawBody, and verifyKeyMiddleware, the    *)
(* Express-style request handler that acquires the raw body, verifies it,  *)
(* answers PING with PONG or hands the parsed payload to next().           *)
(*                                                                         *)
(* Text is a sequence of UTF-16 code units, a Buffer a sequence of bytes   *)
(* (0..255); both are written as tuples of numbers, with the text they     *)
(* stand for in a comment.                                                 *)
(***************************************************************************)
EXTENDS Integers, Sequences, FiniteSets, TLC

-----------------------------------------------------------------------------
(* Bounds of the model. *)

\* number of requests the gate handles in one behaviour
NumReqs == 2
\* most 'data' events one request stream delivers
MaxChunks == 2

-----------------------------------------------------------------------------
(* JavaScript values.  Every value is a record of one shape: k is the      *)
(* type tag, n the number (or 0/1 of a boolean), s the code units of a     *)
(* string or the bytes of a Buffer, o the members of an object in          *)
(* insertion order, each [key |-> code units, val |-> value].              *)

Undefined == [k |-> "undefined", n |-> 0, s |-> <<>>, o |-> <<>>]
JSNull == [k |-> "null", n |-> 0, s |-> <<>>, o |-> <<>>]
JSBool(b) == [k |-> "bool", n |-> IF b THEN 1 ELSE 0, s |-> <<>>, o |-> <<>>]
JSNum(x) == [k |-> "num", n |-> x, s |-> <<>>, o |-> <<>>]
JSStr(t) == [k |-> "str", n |-> 0, s |-> t, o |-> <<>>]
JSObj(members) == [k |-> "obj", n |-> 0, s |-> <<>>, o |-> members]
JSBuffer(bytes) == [k |-> "buffer", n |-> 0, s |-> bytes, o |-> <<>>]

\* ToBoolean, as used by `!x`, `if (x)` and `x || y`
Truthy(v) ==
  CASE v.k = "undefined" -> FALSE
    [] v.k = "null" -> FALSE
    [] v.k = "bool" -> v.n = 1
    [] v.k = "num" -> v.n # 0
    [] v.k = "str" -> v.s # <<>>
    [] OTHER -> TRUE

\* Buffer.isBuffer(v)
IsBuffer(v) == v.k = "buffer"

\* typeof v === 'string'
IsString(v) == v.k = "str"

RECURSIVE FindKey(_, _, _)
\* index of the member of o named key at or after i, 0 when there is none
FindKey(o, key, i) ==
  IF i > Len(o) THEN 0
  ELSE IF o[i].key = key THEN i
  ELSE FindKey(o, key, i + 1)

\* v[key]: the member of an object, undefined for anything else
GetProp(v, key) ==
  IF v.k = "obj" /\ FindKey(v.o, key, 1) # 0
  THEN v.o[FindKey(v.o, key, 1)].val
  ELSE Undefined

\* o with o[key] = val: an existing key keeps its place, a new one is appended
SetMember(o, key, val) ==
  IF FindKey(o, key, 1) # 0
  THEN [o EXCEPT ![FindKey(o, key, 1)] = [key |-> key, val |-> val]]
  ELSE Append(o, [key |-> key, val |-> val])

-----------------------------------------------------------------------------
(* UTF-8.  Buffer.from(text, 'utf-8') and buffer.toString('utf-8').        *)

\* the bytes of one code unit below the surrogate range, or above it
EncodeUnit(c) ==
  IF c < 128 THEN <<c>>
  ELSE IF c < 2048 THEN <<192 + (c \div 64), 128 + (c % 64)>>
  ELSE <<224 + (c \div 4096), 128 + ((c \div 64) % 64), 128 + (c % 64)>>

IsHighSurrogate(c) == c >= 55296 /\ c <= 56319
IsLowSurrogate(c) == c >= 56320 /\ c <= 57343

\* the four bytes of the code point a surrogate pair stands for
EncodePair(hi, lo) ==
  LET cp == 65536 + (hi - 55296) * 1024 + (lo - 56320)
  IN  <<240 + (cp \div 262144), 128 + ((cp \div 4096) % 64),
        128 + ((cp \div 64) % 64), 128 + (cp % 64)>>

RECURSIVE Utf8Encode(_)
\* Buffer.from(t, 'utf-8'): a lone surrogate becomes U+FFFD (EF BF BD)
Utf8Encode(t) ==
  IF t = <<>> THEN <<>>
  ELSE IF IsHighSurrogate(t[1]) /\ Len(t) >= 2 /\ IsLowSurrogate(t[2])
  THEN EncodePair(t[1], t[2]) \o Utf8Encode(SubSeq(t, 3, Len(t)))
  ELSE IF IsHighSurrogate(t[1]) \/ IsLowSurrogate(t[1])
  THEN <<239, 191, 189>> \o Utf8Encode(Tail(t))
  ELSE EncodeUnit(t[1]) \o Utf8Encode(Tail(t))

IsCont(b) == b >= 128 /\ b <= 191

RECURSIVE Utf8Decode(_)
\* b.toString('utf-8'): well-formed one-, two- and three-byte sequences
\* decode to their code unit; any other byte decodes to U+FFFD (65533).
\* (Four-byte sequences and truncated multi-byte prefixes, which Node
\* replaces as one unit, are outside the bodies the model draws.)
Utf8Decode(b) ==
  IF b = <<>> THEN <<>>
  ELSE IF b[1] < 128 THEN <<b[1]>> \o Utf8Decode(Tail(b))
  ELSE IF b[1] >= 194 /\ b[1] <= 223 /\ Len(b) >= 2 /\ IsCont(b[2])
  THEN <<(b[1] - 192) * 64 + (b[2] - 128)>> \o Utf8Decode(SubSeq(b, 3, Len(b)))
  ELSE IF /\ b[1] >= 224 /\ b[1] <= 239 /\ Len(b) >= 3
          /\ IsCont(b[2]) /\ IsCont(b[3])
          /\ (b[1] - 224) * 4096 + (b[2] - 128) * 64 + (b[3] - 128) >= 2048
          /\ ~ IsHighSurrogate((b[1] - 224) * 4096 + (b[2] - 128) * 64 + (b[3] - 128))
          /\ ~ IsLowSurrogate((b[1] - 224) * 4096 + (b[2] - 128) * 64 + (b[3] - 128))
  THEN <<(b[1] - 224) * 4096 + (b[2] - 128) * 64 + (b[3] - 128)>>
         \o Utf8Decode(SubSeq(b, 4, Len(b)))
  ELSE <<65533>> \o Utf8Decode(Tail(b))

-----------------------------------------------------------------------------
(* JSON.parse and JSON.stringify, on the fragment of JSON the bodies of    *)
(* the model are written in: objects, strings without escapes, unsigned    *)
(* integers, true, false, null, and insignificant whitespace.              *)

IsWs(c) == c \in {32, 9, 10, 13}
IsDigit(c) == c >= 48 /\ c <= 57

RECURSIVE SkipWs(_, _)
\* the first position at or after i that holds no whitespace
SkipWs(t, i) == IF i <= Len(t) /\ IsWs(t[i]) THEN SkipWs(t, i + 1) ELSE i

RECURSIVE ScanDigits(_, _)
\* the first position at or after i that holds no digit
ScanDigits(t, i) == IF i <= Len(t) /\ IsDigit(t[i]) THEN ScanDigits(t, i + 1) ELSE i

RECURSIVE DecValue(_)
\* the number a sequence of digits stands for
DecValue(d) ==
  IF d = <<>> THEN 0
  ELSE 10 * DecValue(SubSeq(d, 1, Len(d) - 1)) + (d[Len(d)] - 48)

RECURSIVE ScanString(_, _)
\* the position of the closing quote of a string whose first character is
\* at i; 0 when the string is unterminated or holds a character the
\* fragment has no rule for (a control character, a backslash)
ScanString(t, i) ==
  IF i > Len(t) THEN 0
  ELSE IF t[i] = 34 THEN i
  ELSE IF t[i] < 32 \/ t[i] = 92 THEN 0
  ELSE ScanString(t, i + 1)

\* t has the text lit at position i
HasAt(t, i, lit) == i + Len(lit) - 1 <= Len(t) /\ SubSeq(t, i, i + Len(lit) - 1) = lit

ParseFail == [ok |-> FALSE, val |-> Undefined, pos |-> 0]
ParseOk(v, p) == [ok |-> TRUE, val |-> v, pos |-> p]

\* a string literal whose opening quote is at i
ParseString(t, i) ==
  IF i > Len(t) \/ t[i] # 34 THEN ParseFail
  ELSE LET j == ScanString(t, i + 1)
       IN  IF j = 0 THEN ParseFail ELSE ParseOk(JSStr(SubSeq(t, i + 1, j - 1)), j + 1)

\* an unsigned integer whose first digit is at i (no leading zero)
ParseNumber(t, i) ==
  IF t[i] = 48 THEN ParseOk(JSNum(0), i + 1)
  ELSE LET j == ScanDigits(t, i)
       IN  ParseOk(JSNum(DecValue(SubSeq(t, i, j - 1))), j)

RECURSIVE ParseValue(_, _)
RECURSIVE ParseMembers(_, _, _)

\* the members of an object from position i0 on, acc being those read so far
ParseMembers(t, i0, acc) ==
  LET key == ParseString(t, SkipWs(t, i0))
      c == SkipWs(t, key.pos)
      v == ParseValue(t, c + 1)
      e == SkipWs(t, v.pos)
  IN  IF ~ key.ok THEN ParseFail
      ELSE IF c > Len(t) \/ t[c] # 58 THEN ParseFail
      ELSE IF ~ v.ok THEN ParseFail
      ELSE IF e > Len(t) THEN ParseFail
      ELSE IF t[e] = 44 THEN ParseMembers(t, e + 1, SetMember(acc, key.val.s, v.val))
      ELSE IF t[e] = 125 THEN ParseOk(JSObj(SetMember(acc, key.val.s, v.val)), e + 1)
      ELSE ParseFail

\* one JSON value from position i0 on
ParseValue(t, i0) ==
  LET i == SkipWs(t, i0)
  IN  IF i > Len(t) THEN ParseFail
      ELSE IF t[i] = 123
           THEN LET j == SkipWs(t, i + 1)
                IN  IF j <= Len(t) /\ t[j] = 125 THEN ParseOk(JSObj(<<>>), j + 1)
                    ELSE ParseMembers(t, i + 1, <<>>)
      ELSE IF t[i] = 34 THEN ParseString(t, i)
      ELSE IF IsDigit(t[i]) THEN ParseNumber(t, i)
      ELSE IF HasAt(t, i, <<116, 114, 117, 101>>) THEN ParseOk(JSBool(TRUE), i + 4)
      ELSE IF HasAt(t, i, <<102, 97, 108, 115, 101>>) THEN ParseOk(JSBool(FALSE), i + 5)
      ELSE IF HasAt(t, i, <<110, 117, 108, 108>>) THEN ParseOk(JSNull, i + 4)
      ELSE ParseFail

\* JSON.parse(t): ok with the value, or not ok when it throws a SyntaxError
JSONParse(t) ==
  LET r == ParseValue(t, 1)
  IN  IF r.ok /\ SkipWs(t, r.pos) = Len(t) + 1
      THEN [ok |-> TRUE, val |-> r.val]
      ELSE [ok |-> FALSE, val |-> Undefined]

RECURSIVE DecString(_)
\* the decimal digits of a natural number
DecString(x) ==
  IF x < 10 THEN <<48 + x>> ELSE DecString(x \div 10) \o <<48 + (x % 10)>>

RECURSIVE JSONStringify(_)
RECURSIVE StringifyMembers(_, _)

\* the members of an object from the i-th on, separated by commas
StringifyMembers(o, i) ==
  IF i > Len(o) THEN <<>>
  ELSE (IF i > 1 THEN <<44>> ELSE <<>>)
       \o <<34>> \o o[i].key \o <<34, 58>> \o JSONStringify(o[i].val)
       \o StringifyMembers(o, i + 1)

\* JSON.stringify(v) of a value JSON.parse can return
JSONStringify(v) ==
  CASE v.k = "null" -> <<110, 117, 108, 108>>
    [] v.k = "bool" -> IF v.n = 1 THEN <<116, 114, 117, 101>>
                                  ELSE <<102, 97, 108, 115, 101>>
    [] v.k = "num" -> DecString(v.n)
    [] v.k = "str" -> <<34>> \o v.s \o <<34>>
    [] v.k = "obj" -> <<123>> \o StringifyMembers(v.o, 1) \o <<125>>

-----------------------------------------------------------------------------
(* Program constants and literals. *)

\* InteractionType.PING
PING == 1
\* InteractionResponseType.PONG
PONG == 1
\* the status the gate sets on a rejection
Unauthorized == 401

\* 'Invalid headers'
InvalidHeaders == <<73, 110, 118, 97, 108, 105, 100, 32, 104, 101, 97, 100, 101, 114, 115>>
\* 'Invalid signature'
InvalidSignature ==
  <<73, 110, 118, 97, 108, 105, 100, 32, 115, 105, 103, 110, 97, 116, 117, 114, 101>>
\* the property name 'type'
TypeKey == <<116, 121, 112, 101>>

-----------------------------------------------------------------------------
(* Ed25519, as the gate sees it.  A public key is the hex string of a key  *)
(* pair's public half, or a string that is no key.  A signature header is  *)
(* absent, the empty string, a string that is no signature, or the         *)
(* signature that a signer made over the bytes msg; ts and body record     *)
(* what the signer concatenated into msg and are not visible to the check. *)

Signers == {"discord", "other"}
PublicKeyOf(signer) == [def |-> TRUE, hex |-> signer]
NoKey == [def |-> FALSE, hex |-> ""]
EmptyKey == [def |-> TRUE, hex |-> ""]
BadKey == [def |-> TRUE, hex |-> "zz"]

\* a check for undefined alone, which lets the empty string through
KeyGiven_DefinedOnly(key) == key.def

\* !clientPublicKey is false
KeyGiven(key) == key.def /\ key.hex # ""

NoSig == [form |-> "absent", signer |-> "", ts |-> <<>>, body |-> <<>>, msg |-> <<>>]
EmptySig == [form |-> "empty", signer |-> "", ts |-> <<>>, body |-> <<>>, msg |-> <<>>]
BadSig == [form |-> "malformed", signer |-> "", ts |-> <<>>, body |-> <<>>, msg |-> <<>>]

\* the signature header the signer sends for timestamp t and body b
Sign(signer, t, b) ==
  [form |-> "sig", signer |-> signer, ts |-> t, body |-> b, msg |-> Utf8Encode(t) \o b]

\* !signature is false
SigGiven(sig) == sig.form \notin {"absent", "empty"}

\* noble-ed25519 verify(signature, message, publicKey): "true", "false", or
\* "throw" when the signature or the key cannot be parsed
EdVerify(signature, message, publicKey) ==
  IF signature.form # "sig" \/ publicKey.hex \notin Signers THEN "throw"
  ELSE IF PublicKeyOf(signature.signer) = publicKey /\ signature.msg = message THEN "true"
  ELSE "false"

\* verifyKey without its try/catch: what the check throws reaches the caller
VerifyKey_NoCatch(rawBody, signature, timestamp, clientPublicKey) ==
  LET out == EdVerify(signature, Utf8Encode(timestamp.s) \o rawBody, clientPublicKey)
  IN  IF out = "throw" THEN [settled |-> "rejected", value |-> FALSE]
      ELSE [settled |-> "resolved", value |-> (out = "true")]

\* verifyKey(rawBody, signature, timestamp, clientPublicKey): how the
\* returned promise settles, and with what
VerifyKey(rawBody, signature, timestamp, clientPublicKey) ==
  LET out == EdVerify(signature, Utf8Encode(timestamp.s) \o rawBody, clientPublicKey)
  IN  IF out = "throw" THEN [settled |-> "resolved", value |-> FALSE]
      ELSE [settled |-> "resolved", value |-> (out = "true")]

RECURSIVE BufferConcat_Reversed(_)
\* the chunks put together last first
BufferConcat_Reversed(list) ==
  IF list = <<>> THEN <<>> ELSE BufferConcat_Reversed(Tail(list)) \o Head(list)

RECURSIVE BufferConcat(_)
\* Buffer.concat(list)
BufferConcat(list) == IF list = <<>> THEN <<>> ELSE Head(list) \o BufferConcat(Tail(list))

-----------------------------------------------------------------------------
(* The requests the model draws. *)

Reqs == 1 .. NumReqs

\* X-Signature-Timestamp: absent, '', '1', '12'
Timestamps == {Undefined, JSStr(<<>>), JSStr(<<49>>), JSStr(<<49, 50>>)}

\* !timestamp is false
TimestampGiven(t) == Truthy(t)

\* {"type":1}
BodyPing == <<123, 34, 116, 121, 112, 101, 34, 58, 49, 125>>
\* {"type": 1}
BodyPingSpaced == <<123, 34, 116, 121, 112, 101, 34, 58, 32, 49, 125>>
\* {"type":2,"id":"é"} with é as the bytes C3 A9
BodyCommand ==
  <<123, 34, 116, 121, 112, 101, 34, 58, 50, 44, 34, 105, 100, 34, 58, 34, 195, 169, 34, 125>>
\* {"type":"1"}
BodyStringType == <<123, 34, 116, 121, 112, 101, 34, 58, 34, 49, 34, 125>>
\* {"id":7}
BodyNoType == <<123, 34, 105, 100, 34, 58, 55, 125>>
\* 2
BodyTwo == <<50>>
\* null
BodyNull == <<110, 117, 108, 108>>
\* false
BodyFalse == <<102, 97, 108, 115, 101>>
\* 0
BodyZero == <<48>>
\* ""
BodyEmptyString == <<34, 34>>
\* the empty body
BodyEmpty == <<>>
\* {"type":1 with the closing brace missing
BodyTruncated == <<123, 34, 116, 121, 112, 101, 34, 58, 49>>
\* "?" where ? is the byte FF, which is not UTF-8
BodyBadUtf8 == <<34, 255, 34>>

\* the bodies a sender puts on the wire
Bodies ==
  { BodyPing, BodyPingSpaced, BodyCommand, BodyStringType, BodyNoType, BodyTwo,
    BodyNull, BodyFalse, BodyZero, BodyEmptyString, BodyEmpty, BodyTruncated,
    BodyBadUtf8 }

\* what an earlier stage has made of the body: nothing, a Buffer of it, its
\* text, or its JSON value
Stages == {"none", "buffer", "string", "json"}

\* an earlier stage that parses JSON passes on only bodies that parse
StageAccepts(stage, wire) == stage = "json" => JSONParse(Utf8Decode(wire)).ok

\* req.body as the gate finds it
Materialize(stage, wire) ==
  CASE stage = "none" -> Undefined
    [] stage = "buffer" -> JSBuffer(wire)
    [] stage = "string" -> JSStr(Utf8Decode(wire))
    [] stage = "json" -> JSONParse(Utf8Decode(wire)).val

\* the signature headers a request with timestamp header t and body wire
\* may carry: none, '', garbage, what the trusted sender signed for one of
\* its timestamps over this body or over the empty body, and what another
\* key pair signs for this very request
SignaturesFor(t, wire) ==
  {NoSig, EmptySig, BadSig}
    \cup {Sign("discord", t2.s, b) : t2 \in {x \in Timestamps : Truthy(x)}, b \in {wire, <<>>}}
    \cup {Sign("other", t.s, wire)}

\* every request the model draws
AllInputs ==
  UNION { { [ts |-> tw[1], sig |-> g, wire |-> tw[2], stage |-> st] :
              g \in SignaturesFor(tw[1], tw[2]),
              st \in {x \in Stages : StageAccepts(x, tw[2])} } :
          tw \in Timestamps \X Bodies }

\* the requests in flight next to the first one: a PING of the trusted
\* sender, read from the stream
Background ==
  { [ts |-> JSStr(<<49>>), sig |-> Sign("discord", <<49>>, BodyPing), wire |-> BodyPing,
     stage |-> "none"] }

\* the first request ranges over every input, the others over the background
InputsOf(r) == IF r = 1 THEN AllInputs ELSE Background

\* the clientPublicKey arguments verifyKeyMiddleware is called with
KeyArgs == {NoKey, EmptyKey, BadKey, PublicKeyOf("discord")}

\* the sizes of the next chunk of a stream with rest still to deliver: for
\* the first request one byte or all of it, and an empty chunk once nothing
\* is left; for the others all of it
ChunkSizes(r, rest) ==
  IF r = 1 THEN (IF rest = <<>> THEN {0} ELSE {1, Len(rest)})
  ELSE {n \in {Len(rest)} : n > 0}

-----------------------------------------------------------------------------
(* State. *)

VARIABLES
  gate,       \* verifyKeyMiddleware's call: its argument, whether it threw or returned
  pc,         \* where each request's handler is
  input,      \* each request as it arrived
  reqBody,    \* req.body
  stream,     \* the request's body stream
  chunks,     \* the handler's chunks array
  calls,      \* the verifyKey calls made for the request
  res,        \* the ServerResponse
  nextCalls,  \* the arguments of the next() calls
  unhandled,  \* onBodyComplete's promise rejected, which nothing observes
  trace       \* what the handler did to req, res, console and next, in order

vars == <<gate, pc, input, reqBody, stream, chunks, calls, res, nextCalls, unhandled, trace>>

NoInput == [ts |-> Undefined, sig |-> NoSig, wire |-> <<>>, stage |-> "none"]

\* a ServerResponse nobody has written to
FreshResponse == [statusCode |-> 200, headers |-> {}, body |-> <<>>, ends |-> 0]

Pending == [settled |-> "pending", value |-> FALSE]

Init ==
  /\ gate = [state |-> "none", arg |-> NoKey]
  /\ pc = [r \in Reqs |-> "new"]
  /\ input = [r \in Reqs |-> NoInput]
  /\ reqBody = [r \in Reqs |-> Undefined]
  /\ stream = [r \in Reqs |-> [state |-> "idle", rest |-> <<>>, listeners |-> FALSE]]
  /\ chunks = [r \in Reqs |-> <<>>]
  /\ calls = [r \in Reqs |-> <<>>]
  /\ res = [r \in Reqs |-> FreshResponse]
  /\ nextCalls = [r \in Reqs |-> <<>>]
  /\ unhandled = [r \in Reqs |-> FALSE]
  /\ trace = [r \in Reqs |-> <<>>]

-----------------------------------------------------------------------------
(* Operations. *)

\* the two buffers concatenated the other way round
SignedMessage_BodyFirst(timestamp, rawBody) == rawBody \o Utf8Encode(timestamp.s)

\* Buffer.concat([Buffer.from(timestamp, 'utf-8'), rawBody])
SignedMessage(timestamp, rawBody) == Utf8Encode(timestamp.s) \o rawBody

\* verifyKeyMiddleware(clientPublicKey)
Construct(key) ==
  /\ gate.state = "none"
  /\ gate' = [state |-> IF KeyGiven(key) THEN "built" ELSE "threw", arg |-> key]
  /\ UNCHANGED <<pc, input, reqBody, stream, chunks, calls, res, nextCalls, unhandled, trace>>

\* the key the returned handler closes over
ClientPublicKey == gate.arg

\* timestamp and signature kept where every request shares them, so that a
\* call is made with what the first request left there
CallFor_SharedHeaders(r, in, rawBody) ==
  [ rawBody |-> rawBody, signature |-> input[1].sig, timestamp |-> input[1].ts,
    clientPublicKey |-> ClientPublicKey,
    message |-> SignedMessage(input[1].ts, rawBody), outcome |-> Pending ]

\* the verifyKey call that onBodyComplete(rawBody) makes before it suspends
CallFor(r, in, rawBody) ==
  [ rawBody |-> rawBody, signature |-> in.sig, timestamp |-> in.ts,
    clientPublicKey |-> ClientPublicKey,
    message |-> SignedMessage(in.ts, rawBody), outcome |-> Pending ]

\* the header check with && for ||: only a request missing both is stopped
HeadersMissing_Both(timestamp, signature) ==
  ~ TimestampGiven(timestamp) /\ ~ SigGiven(signature)

\* the header sanity check: !timestamp || !signature
HeadersMissing(timestamp, signature) == ~ TimestampGiven(timestamp) \/ ~ SigGiven(signature)

\* the warning moved above the string branch
Warns_Strings(body) == ~ IsBuffer(body)

\* the branch of a truthy req.body that calls console.warn
Warns(body) == ~ IsBuffer(body) /\ ~ IsString(body)

\* the test without its await: a promise is never falsy
Rejected_NoAwait(out) == FALSE

\* !(await verifyKey(...))
Rejected(out) == ~ out.value

\* the handler without its string branch: a string is re-serialized as JSON
RawBodyOf_NoStringBranch(body) ==
  IF IsBuffer(body) THEN body.s
  ELSE Utf8Encode(JSONStringify(body))

\* the raw body the handler rebuilds from a truthy req.body
RawBodyOf(body) ==
  IF IsBuffer(body) THEN body.s
  ELSE IF IsString(body) THEN Utf8Encode(body.s)
  ELSE Utf8Encode(JSONStringify(body))

\* the handler, from its call to its first suspension
Handle(r) ==
  /\ gate.state = "built"
  /\ pc[r] = "new"
  /\ \E in \in InputsOf(r) :
       LET body == Materialize(in.stage, in.wire)
           arrived == [state |-> IF in.stage = "none" THEN "idle" ELSE "consumed",
                       rest |-> IF in.stage = "none" THEN in.wire ELSE <<>>,
                       listeners |-> FALSE]
       IN
       /\ input' = [input EXCEPT ![r] = in]
       /\ reqBody' = [reqBody EXCEPT ![r] = body]
       /\ IF HeadersMissing(in.ts, in.sig)
          THEN /\ res' = [res EXCEPT ![r] = [@ EXCEPT !.statusCode = Unauthorized,
                                                       !.body = InvalidHeaders,
                                                       !.ends = @ + 1]]
               /\ pc' = [pc EXCEPT ![r] = "done"]
               /\ stream' = [stream EXCEPT ![r] = arrived]
               /\ trace' = [trace EXCEPT ![r] = <<"status", "end">>]
               /\ UNCHANGED calls
          ELSE IF Truthy(body)
          THEN /\ calls' = [calls EXCEPT ![r] = Append(@, CallFor(r, in, RawBodyOf(body)))]
               /\ pc' = [pc EXCEPT ![r] = "verifying"]
               /\ stream' = [stream EXCEPT ![r] = arrived]
               /\ trace' = [trace EXCEPT ![r] =
                              IF Warns(body)
                              THEN <<"readBody", "warn", "verifyKey">>
                              ELSE <<"readBody", "verifyKey">>]
               /\ UNCHANGED res
          ELSE /\ stream' = [stream EXCEPT ![r] =
                               [arrived EXCEPT !.listeners = TRUE,
                                               !.state = IF @ = "idle" THEN "flowing" ELSE @]]
               /\ pc' = [pc EXCEPT ![r] = "streaming"]
               /\ trace' = [trace EXCEPT ![r] = <<"readBody", "on:data", "on:end">>]
               /\ UNCHANGED <<calls, res>>
  /\ UNCHANGED <<gate, chunks, nextCalls, unhandled>>

\* a 'data' listener that hands what has arrived so far to onBodyComplete
Data_Eager(r) ==
  /\ pc[r] = "streaming"
  /\ stream[r].state = "flowing"
  /\ stream[r].listeners
  /\ Len(chunks[r]) < MaxChunks
  /\ \E n \in ChunkSizes(r, stream[r].rest) :
       /\ chunks' = [chunks EXCEPT ![r] = Append(@, SubSeq(stream[r].rest, 1, n))]
       /\ stream' = [stream EXCEPT ![r].rest = SubSeq(@, n + 1, Len(@))]
       /\ calls' = [calls EXCEPT ![r] =
                      Append(@, CallFor(r, input[r],
                                        BufferConcat(Append(chunks[r],
                                                            SubSeq(stream[r].rest, 1, n)))))]
  /\ pc' = [pc EXCEPT ![r] = "verifying"]
  /\ trace' = [trace EXCEPT ![r] = Append(@, "verifyKey")]
  /\ UNCHANGED <<gate, input, reqBody, res, nextCalls, unhandled>>

\* the 'data' listener
Data(r) ==
  /\ pc[r] = "streaming"
  /\ stream[r].state = "flowing"
  /\ stream[r].listeners
  /\ Len(chunks[r]) < MaxChunks
  /\ \E n \in ChunkSizes(r, stream[r].rest) :
       /\ chunks' = [chunks EXCEPT ![r] = Append(@, SubSeq(stream[r].rest, 1, n))]
       /\ stream' = [stream EXCEPT ![r].rest = SubSeq(@, n + 1, Len(@))]
  /\ UNCHANGED <<gate, pc, input, reqBody, calls, res, nextCalls, unhandled, trace>>

\* the 'end' listener
End(r) ==
  /\ pc[r] = "streaming"
  /\ stream[r].state = "flowing"
  /\ stream[r].listeners
  /\ stream[r].rest = <<>>
  /\ stream' = [stream EXCEPT ![r].state = "ended"]
  /\ calls' = [calls EXCEPT ![r] = Append(@, CallFor(r, input[r], BufferConcat(chunks[r])))]
  /\ pc' = [pc EXCEPT ![r] = "verifying"]
  /\ trace' = [trace EXCEPT ![r] = Append(@, "verifyKey")]
  /\ UNCHANGED <<gate, input, reqBody, chunks, res, nextCalls, unhandled>>

\* the connection closes before the body is complete: no 'end' follows
Abort(r) ==
  /\ pc[r] = "streaming"
  /\ stream[r].state = "flowing"
  /\ stream[r].rest # <<>>
  /\ stream' = [stream EXCEPT ![r].state = "aborted"]
  /\ UNCHANGED <<gate, pc, input, reqBody, chunks, calls, res, nextCalls, unhandled, trace>>

\* the raw body read as one character per byte
ParseBody_Latin1(rawBody) == JSONParse(rawBody)

\* JSON.parse(rawBody.toString('utf-8'))
ParseBody(rawBody) == JSONParse(Utf8Decode(rawBody))

\* the parsed value passed on whatever it is
BodyOrEmpty_Identity(parsed) == parsed

\* JSON.parse(...) || {}
BodyOrEmpty(parsed) == IF Truthy(parsed) THEN parsed ELSE JSObj(<<>>)

\* the comparison with == for ===: the string "1" is a PING too
IsPing_Loose(body) ==
  \/ GetProp(body, TypeKey) = JSNum(PING)
  \/ GetProp(body, TypeKey) = JSStr(DecString(PING))

\* the comparison against the wrong member of the enum
IsPing_Command(body) == GetProp(body, TypeKey) = JSNum(PING + 1)

\* body.type === InteractionType.PING
IsPing(body) == GetProp(body, TypeKey) = JSNum(PING)

\* JSON.stringify({ type: InteractionResponseType.PONG })
PongBody == JSONStringify(JSObj(<<[key |-> TypeKey, val |-> JSNum(PONG)]>>))

\* onBodyComplete whose PING branch does not return: the PONG is written
\* and the request is passed on as well
VerifyReturn_NoReturn(r) ==
  /\ pc[r] = "verifying"
  /\ LET c == calls[r][Len(calls[r])]
         out == VerifyKey(c.rawBody, c.signature, c.timestamp, c.clientPublicKey)
         parsed == ParseBody(c.rawBody)
         body == BodyOrEmpty(parsed.val)
     IN
     /\ calls' = [calls EXCEPT ![r][Len(calls[r])].outcome = out]
     /\ pc' = [pc EXCEPT ![r] = "done"]
     /\ IF out.settled = "rejected"
        THEN /\ unhandled' = [unhandled EXCEPT ![r] = TRUE]
             /\ UNCHANGED <<res, reqBody, nextCalls, trace>>
        ELSE IF Rejected(out)
        THEN /\ res' = [res EXCEPT ![r] = [@ EXCEPT !.statusCode = Unauthorized,
                                                     !.body = InvalidSignature,
                                                     !.ends = @ + 1]]
             /\ trace' = [trace EXCEPT ![r] = @ \o <<"status", "end">>]
             /\ UNCHANGED <<reqBody, nextCalls, unhandled>>
        ELSE IF ~ parsed.ok
        THEN /\ unhandled' = [unhandled EXCEPT ![r] = TRUE]
             /\ trace' = [trace EXCEPT ![r] = Append(@, "parse")]
             /\ UNCHANGED <<res, reqBody, nextCalls>>
        ELSE IF IsPing(body)
        THEN /\ res' = [res EXCEPT ![r] =
                          [@ EXCEPT !.headers = @ \cup {<<"Content-Type", "application/json">>},
                                    !.body = PongBody,
                                    !.ends = @ + 1]]
             /\ reqBody' = [reqBody EXCEPT ![r] = body]
             /\ nextCalls' = [nextCalls EXCEPT ![r] = Append(@, Undefined)]
             /\ trace' = [trace EXCEPT ![r] =
                            @ \o <<"parse", "setHeader", "end", "assign", "next">>]
             /\ UNCHANGED unhandled
        ELSE /\ reqBody' = [reqBody EXCEPT ![r] = body]
             /\ nextCalls' = [nextCalls EXCEPT ![r] = Append(@, Undefined)]
             /\ trace' = [trace EXCEPT ![r] = @ \o <<"parse", "assign", "next">>]
             /\ UNCHANGED <<res, unhandled>>
  /\ UNCHANGED <<gate, input, stream, chunks>>

\* onBodyComplete from the point verifyKey's promise settles
VerifyReturn(r) ==
  /\ pc[r] = "verifying"
  /\ LET c == calls[r][Len(calls[r])]
         out == VerifyKey(c.rawBody, c.signature, c.timestamp, c.clientPublicKey)
         parsed == ParseBody(c.rawBody)
         body == BodyOrEmpty(parsed.val)
     IN
     /\ calls' = [calls EXCEPT ![r][Len(calls[r])].outcome = out]
     /\ pc' = [pc EXCEPT ![r] = "done"]
     /\ IF out.settled = "rejected"
        THEN /\ unhandled' = [unhandled EXCEPT ![r] = TRUE]
             /\ UNCHANGED <<res, reqBody, nextCalls, trace>>
        ELSE IF Rejected(out)
        THEN /\ res' = [res EXCEPT ![r] = [@ EXCEPT !.statusCode = Unauthorized,
                                                     !.body = InvalidSignature,
                                                     !.ends = @ + 1]]
             /\ trace' = [trace EXCEPT ![r] = @ \o <<"status", "end">>]
             /\ UNCHANGED <<reqBody, nextCalls, unhandled>>
        ELSE IF ~ parsed.ok
        THEN /\ unhandled' = [unhandled EXCEPT ![r] = TRUE]
             /\ trace' = [trace EXCEPT ![r] = Append(@, "parse")]
             /\ UNCHANGED <<res, reqBody, nextCalls>>
        ELSE IF IsPing(body)
        THEN /\ res' = [res EXCEPT ![r] =
                          [@ EXCEPT !.headers = @ \cup {<<"Content-Type", "application/json">>},
                                    !.body = PongBody,
                                    !.ends = @ + 1]]
             /\ trace' = [trace EXCEPT ![r] = @ \o <<"parse", "setHeader", "end">>]
             /\ UNCHANGED <<reqBody, nextCalls, unhandled>>
        ELSE /\ reqBody' = [reqBody EXCEPT ![r] = body]
             /\ nextCalls' = [nextCalls EXCEPT ![r] = Append(@, Undefined)]
             /\ trace' = [trace EXCEPT ![r] = @ \o <<"parse", "assign", "next">>]
             /\ UNCHANGED <<res, unhandled>>
  /\ UNCHANGED <<gate, input, stream, chunks>>

Next ==
  \/ \E key \in KeyArgs : Construct(key)
  \/ \E r \in Reqs : Handle(r)
  \/ \E r \in Reqs : Data(r)
  \/ \E r \in Reqs : End(r)
  \/ \E r \in Reqs : Abort(r)
  \/ \E r \in Reqs : VerifyReturn(r)

Spec == Init /\ [][Next]_vars

-----------------------------------------------------------------------------
(* What the claims speak of. *)

\* the request has reached the handler
Arrived(r) == pc[r] # "new"

\* req.body as the earlier stages left it
BodyOnArrival(r) == Materialize(input[r].stage, input[r].wire)

\* the request got past the header check
PassedHeaders(r) ==
  Arrived(r) /\ TimestampGiven(input[r].ts) /\ SigGiven(input[r].sig)

\* the verifyKey call of the request has returned v
Verified(r, v) ==
  /\ calls[r] # <<>>
  /\ calls[r][1].outcome.settled = "resolved"
  /\ calls[r][1].outcome.value = v

\* what JSON.parse makes of the raw body the request was verified with
ParsedOf(r) == JSONParse(Utf8Decode(calls[r][1].rawBody))

\* the response is the 401 with this text and nothing else
RejectedWith(r, text) ==
  res[r] = [statusCode |-> 401, headers |-> {}, body |-> text, ends |-> 1]

\* the response is the PONG: 200, Content-Type: application/json, {"type":1}
Ponged(r) ==
  res[r] = [statusCode |-> 200, headers |-> {<<"Content-Type", "application/json">>},
            body |-> <<123, 34, 116, 121, 112, 101, 34, 58, 49, 125>>, ends |-> 1]

\* e occurs in the trace of r
Did(r, e) == \E i \in DOMAIN trace[r] : trace[r][i] = e

\* how often e occurs in the trace of r
TimesDid(r, e) == Cardinality({i \in DOMAIN trace[r] : trace[r][i] = e})

-----------------------------------------------------------------------------
(* Claims. *)

\* C1: when verifyKey returns false for a request that passed the header
\* check, the response is 401 'Invalid signature' and nothing else happens:
\* no next(), no PONG, no JSON.parse, no assignment to req.body.
C1_InvalidSignature ==
  \A r \in Reqs :
    Verified(r, FALSE) =>
      /\ PassedHeaders(r)
      /\ RejectedWith(r, InvalidSignature)
      /\ nextCalls[r] = <<>>
      /\ ~ Ponged(r)
      /\ ~ Did(r, "parse")
      /\ ~ Did(r, "assign")
      /\ reqBody[r] = BodyOnArrival(r)

\* a well-formed PING whose signature another key made has been turned away
C1_Witness ==
  \E r \in Reqs :
    /\ Verified(r, FALSE)
    /\ input[r].sig.signer = "other"
    /\ ParsedOf(r).ok /\ GetProp(ParsedOf(r).val, TypeKey) = JSNum(1)

\* C2: a request whose signature header, timestamp header or both are absent
\* or empty gets 401 'Invalid headers'; the body is not touched: no
\* listener, req.body not read, no verifyKey, no warning, no next().
C2_InvalidHeaders ==
  \A r \in Reqs :
    (Arrived(r) /\ (~ Truthy(input[r].ts) \/ input[r].sig.form \in {"absent", "empty"})) =>
      /\ pc[r] = "done"
      /\ RejectedWith(r, InvalidHeaders)
      /\ ~ stream[r].listeners
      /\ chunks[r] = <<>>
      /\ ~ Did(r, "on:data") /\ ~ Did(r, "on:end")
      /\ ~ Did(r, "readBody")
      /\ reqBody[r] = BodyOnArrival(r)
      /\ calls[r] = <<>>
      /\ ~ Did(r, "warn")
      /\ nextCalls[r] = <<>>

\* a request with a timestamp, an empty signature header and an unread body
\* on the stream has arrived
C2_Witness ==
  \E r \in Reqs :
    /\ Arrived(r)
    /\ Truthy(input[r].ts)
    /\ input[r].sig.form = "empty"
    /\ input[r].stage = "none" /\ input[r].wire # <<>>

\* C3: verifyKey's promise never rejects; it resolves to true exactly when
\* the Ed25519 check returns true, and to false when the check returns false
\* or throws.
C3_VerifyKeyNeverRaises ==
  \A r \in Reqs : \A i \in DOMAIN calls[r] :
    LET c == calls[r][i]
        ed == EdVerify(c.signature, Utf8Encode(c.timestamp.s) \o c.rawBody, c.clientPublicKey)
    IN  /\ c.outcome.settled # "rejected"
        /\ ~ unhandled[r] \/ Did(r, "parse")
        /\ c.outcome.settled = "resolved" =>
             /\ c.outcome.value = TRUE <=> ed = "true"
             /\ c.outcome.value = FALSE <=> ed \in {"false", "throw"}

\* verifyKey has returned for a signature the Ed25519 check cannot parse
C3_Witness ==
  \E r \in Reqs :
    /\ Verified(r, FALSE)
    /\ input[r].sig.form = "malformed"
    /\ EdVerify(calls[r][1].signature, calls[r][1].message, calls[r][1].clientPublicKey)
         = "throw"

\* C4: a request with both headers whose signature verifies and whose body
\* parses to a payload with type exactly the number 1 gets 200,
\* Content-Type: application/json and the body {"type":1}; next() is not
\* called and req.body is not replaced.
C4_PingPong ==
  \A r \in Reqs :
    (/\ pc[r] = "done" /\ Verified(r, TRUE)
     /\ ParsedOf(r).ok /\ GetProp(ParsedOf(r).val, TypeKey) = JSNum(1)) =>
      /\ PassedHeaders(r)
      /\ Ponged(r)
      /\ nextCalls[r] = <<>>
      /\ ~ Did(r, "assign")
      /\ reqBody[r] = BodyOnArrival(r)

\* a verified {"type": 1} has been answered
C4_Witness ==
  \E r \in Reqs :
    /\ pc[r] = "done" /\ Verified(r, TRUE)
    /\ calls[r][1].rawBody = BodyPingSpaced
    /\ res[r].ends = 1

\* C5: a request with both headers whose signature verifies and whose body
\* parses to an object whose type is not the number 1 gets no response;
\* req.body becomes the parsed payload and next() is called once, without
\* an argument.
C5_Forward ==
  \A r \in Reqs :
    (/\ pc[r] = "done" /\ Verified(r, TRUE)
     /\ ParsedOf(r).ok /\ ParsedOf(r).val.k = "obj"
     /\ GetProp(ParsedOf(r).val, TypeKey) # JSNum(1)) =>
      /\ PassedHeaders(r)
      /\ res[r] = FreshResponse
      /\ ~ Did(r, "status") /\ ~ Did(r, "setHeader") /\ ~ Did(r, "end")
      /\ reqBody[r] = ParsedOf(r).val
      /\ nextCalls[r] = <<Undefined>>
      /\ ~ unhandled[r]

\* a verified {"type":"1"}, whose type is a string, has been handed on
C5_Witness ==
  \E r \in Reqs :
    /\ pc[r] = "done" /\ Verified(r, TRUE)
    /\ calls[r][1].rawBody = BodyStringType
    /\ nextCalls[r] # <<>>

\* C6: when the signature verifies but the raw body is not valid JSON, the
\* failure is reported for that request as a client error other than the
\* 401 'Invalid signature', through the response or through an error given
\* to next(); it is not swallowed, and downstream gets no payload.
C6_ParseErrorReported ==
  \A r \in Reqs :
    (pc[r] = "done" /\ Verified(r, TRUE) /\ ~ ParsedOf(r).ok) =>
      /\ \/ /\ res[r].ends = 1
            /\ res[r].statusCode >= 400 /\ res[r].statusCode < 500
            /\ ~ RejectedWith(r, InvalidSignature)
         \/ /\ Len(nextCalls[r]) = 1
            /\ nextCalls[r][1] # Undefined
      /\ ~ unhandled[r]
      /\ reqBody[r] = BodyOnArrival(r)

\* C7: a signature the trusted sender made over a timestamp T' other than
\* the request's header T, with whatever body B', makes the gate answer 401
\* and neither call next() nor answer PONG; the signed message is the UTF-8
\* bytes of T followed directly by the raw body.
C7_OtherTimestampRejected ==
  \A r \in Reqs :
    (/\ pc[r] = "done" /\ calls[r] # <<>>
     /\ input[r].sig.form = "sig" /\ input[r].sig.signer = "discord"
     /\ input[r].sig.ts # input[r].ts.s) =>
      /\ res[r].statusCode = 401 /\ res[r].ends = 1
      /\ nextCalls[r] = <<>>
      /\ ~ Ponged(r)
      /\ calls[r][1].message = Utf8Encode(input[r].ts.s) \o calls[r][1].rawBody

\* C7, amended: such a signature is turned away with 401 unless the bytes
\* T' ++ B' it was made over are the very bytes T ++ B of the request.
C7_OtherMessageRejected ==
  \A r \in Reqs :
    (/\ pc[r] = "done" /\ calls[r] # <<>>
     /\ input[r].sig.form = "sig" /\ input[r].sig.signer = "discord"
     /\ input[r].sig.ts # input[r].ts.s
     /\ Utf8Encode(input[r].sig.ts) \o input[r].sig.body
          # Utf8Encode(input[r].ts.s) \o calls[r][1].rawBody) =>
      /\ res[r].statusCode = 401 /\ res[r].ends = 1
      /\ RejectedWith(r, InvalidSignature)
      /\ nextCalls[r] = <<>>
      /\ ~ Ponged(r)
      /\ calls[r][1].message = Utf8Encode(input[r].ts.s) \o calls[r][1].rawBody

\* a PING signed by the trusted sender for timestamp '12' has been turned
\* away under the header timestamp '1' by a gate that holds the sender's key
C7_Witness ==
  \E r \in Reqs :
    /\ pc[r] = "done" /\ calls[r] # <<>>
    /\ gate.arg = PublicKeyOf("discord")
    /\ input[r].ts = JSStr(<<49>>)
    /\ input[r].sig = Sign("discord", <<49, 50>>, BodyPing)
    /\ calls[r][1].rawBody = BodyPing
    /\ res[r].statusCode = 401

\* C8: verifyKeyMiddleware throws for a missing or empty public key and
\* returns no handler, so no request is processed; for a non-empty key it
\* returns a handler, which uses that key, unchanged, for every request.
C8_KeyAtConstruction ==
  /\ gate.state = "threw" <=> (gate.state # "none" /\ (~ gate.arg.def \/ gate.arg.hex = ""))
  /\ gate.state = "built" <=> (gate.state # "none" /\ gate.arg.def /\ gate.arg.hex # "")
  /\ gate.state # "built" =>
       \A r \in Reqs : pc[r] = "new" /\ calls[r] = <<>> /\ res[r] = FreshResponse
  /\ \A r \in Reqs : \A i \in DOMAIN calls[r] : calls[r][i].clientPublicKey = gate.arg

\* every request has been verified by the one gate
C8_Witness ==
  /\ gate.state = "built"
  /\ \A r \in Reqs : pc[r] = "done" /\ calls[r] # <<>>

C10_WarningOnReserialization ==
  \A r \in Reqs :
    LET b == BodyOnArrival(r)
    IN  Arrived(r) =>
          IF PassedHeaders(r) /\ Truthy(b) /\ b.k \notin {"buffer", "str"}
          THEN /\ TimesDid(r, "warn") = 1
               /\ \E i, j \in DOMAIN trace[r] :
                    i < j /\ trace[r][i] = "warn" /\ trace[r][j] = "verifyKey"
               /\ \A i, j \in DOMAIN trace[r] :
                    (trace[r][i] = "warn" /\ trace[r][j] = "verifyKey") => i < j
          ELSE ~ Did(r, "warn")

\* a request whose body an earlier stage had parsed has been warned about
\* and then answered
C10_Witness ==
  \E r \in Reqs :
    /\ pc[r] = "done"
    /\ input[r].stage = "json" /\ BodyOnArrival(r).k = "obj"
    /\ Did(r, "warn")

\* C11: whenever an earlier stage has materialized the body as a Buffer, a
\* string or a parsed object - an empty Buffer and the empty string
\* included - the gate uses that value and attaches no 'data'/'end'
\* listener; the stream is read only when no body has been materialized.
C11_MaterializedBodyUsed ==
  \A r \in Reqs :
    (PassedHeaders(r) /\ BodyOnArrival(r).k \in {"buffer", "str", "obj"}) =>
      /\ ~ stream[r].listeners
      /\ ~ Did(r, "on:data") /\ ~ Did(r, "on:end")
      /\ calls[r] # <<>>
      /\ input[r].stage # "none"

\* C12: on the stream path nothing is verified, answered, parsed or handed
\* on before 'end'; a stream that delivers chunks and is then aborted
\* without 'end' never leads to a verification, a response or next().
C12_NothingBeforeEnd ==
  \A r \in Reqs :
    (stream[r].listeners /\ stream[r].state # "ended") =>
      /\ pc[r] = "streaming"
      /\ calls[r] = <<>>
      /\ ~ Did(r, "verifyKey") /\ ~ Did(r, "parse")
      /\ res[r] = FreshResponse
      /\ nextCalls[r] = <<>>
      /\ reqBody[r] = BodyOnArrival(r)
      /\ ~ unhandled[r]

\* a stream has delivered a chunk of its body and was then aborted
C12_Witness ==
  \E r \in Reqs :
    /\ stream[r].state = "aborted"
    /\ chunks[r] # <<>> /\ chunks[r][1] # <<>>
    /\ stream[r].rest # <<>>

\* C13: on the stream path the bytes given to the verifier at 'end' are
\* the chunks received, in order, none dropped, doubled or moved - the body
\* as it was sent - so that two requests that differ only in how the body
\* was split into chunks have the same signed message, verification result
\* and outcome.
C13_ChunkingInvisible ==
  /\ \A r \in Reqs : \A i \in DOMAIN calls[r] :
       input[r].stage = "none" =>
         /\ calls[r][i].rawBody = input[r].wire
         /\ calls[r][i].message = Utf8Encode(input[r].ts.s) \o input[r].wire
         /\ stream[r].state = "ended" /\ stream[r].rest = <<>>
  /\ \A r1, r2 \in Reqs :
       (/\ input[r1] = input[r2] /\ input[r1].stage = "none"
        /\ pc[r1] = "done" /\ pc[r2] = "done") =>
         /\ calls[r1] = calls[r2]
         /\ res[r1] = res[r2]
         /\ nextCalls[r1] = nextCalls[r2]
         /\ reqBody[r1] = reqBody[r2]
         /\ unhandled[r1] = unhandled[r2]

\* the same PING has been answered twice, once sent in one chunk and once
\* with its first byte in a chunk of its own
C13_Witness ==
  \E r1, r2 \in Reqs :
    /\ input[r1] = input[r2] /\ input[r1].stage = "none"
    /\ pc[r1] = "done" /\ pc[r2] = "done"
    /\ Len(chunks[r1]) = 1 /\ Len(chunks[r2]) = 2
    /\ Len(chunks[r2][1]) = 1
    /\ Verified(r1, TRUE)

\* the raw body a request brings by itself: its materialized body, or else
\* the bytes it sent
OwnRawBody(r) ==
  LET b == BodyOnArrival(r)
  IN  IF b.k = "buffer" THEN b.s
      ELSE IF b.k = "str" THEN Utf8Encode(b.s)
      ELSE IF b.k = "undefined" THEN input[r].wire
      ELSE Utf8Encode(JSONStringify(b))

\* what becomes of a request that the gate handles with no other in flight
AloneOutcome(r) ==
  LET in == input[r]
      raw == OwnRawBody(r)
      good == /\ in.sig.form = "sig" /\ gate.arg.hex \in Signers
              /\ gate.arg.hex = in.sig.signer
              /\ in.sig.msg = Utf8Encode(in.ts.s) \o raw
      p == JSONParse(Utf8Decode(raw))
      payload == IF Truthy(p.val) THEN p.val ELSE JSObj(<<>>)
  IN  IF ~ Truthy(in.ts) \/ in.sig.form \in {"absent", "empty"}
      THEN [kind |-> "invalid headers", body |-> BodyOnArrival(r)]
      ELSE IF ~ good THEN [kind |-> "invalid signature", body |-> BodyOnArrival(r)]
      ELSE IF ~ p.ok THEN [kind |-> "nothing", body |-> BodyOnArrival(r)]
      ELSE IF GetProp(payload, TypeKey) = JSNum(1)
      THEN [kind |-> "pong", body |-> BodyOnArrival(r)]
      ELSE [kind |-> "next", body |-> payload]

\* what has become of a request
Outcome(r) ==
  [ kind |-> IF RejectedWith(r, InvalidHeaders) /\ nextCalls[r] = <<>> THEN "invalid headers"
             ELSE IF RejectedWith(r, InvalidSignature) /\ nextCalls[r] = <<>>
             THEN "invalid signature"
             ELSE IF Ponged(r) /\ nextCalls[r] = <<>> THEN "pong"
             ELSE IF res[r] = FreshResponse /\ nextCalls[r] = <<Undefined>> THEN "next"
             ELSE IF res[r] = FreshResponse /\ nextCalls[r] = <<>> THEN "nothing"
             ELSE "mixed",
    body |-> reqBody[r] ]

\* C14: with several requests in flight, their events interleaved in any
\* order, each request's chunks are its own, each is verified with its own
\* signature and timestamp headers, and each ends as it would have ended
\* alone: 401, PONG, or next() with its own payload.
C14_RequestsIsolated ==
  \A r \in Reqs :
    /\ input[r].stage = "none" /\ Arrived(r) =>
         BufferConcat(chunks[r]) \o stream[r].rest = input[r].wire
    /\ input[r].stage # "none" \/ ~ Arrived(r) => chunks[r] = <<>>
    /\ \A i \in DOMAIN calls[r] :
         /\ calls[r][i].signature = input[r].sig
         /\ calls[r][i].timestamp = input[r].ts
         /\ calls[r][i].rawBody = OwnRawBody(r)
    /\ pc[r] = "done" => Outcome(r) = AloneOutcome(r)

\* two requests are in flight at once: one waits for its verification while
\* the other, whose headers differ, has received part of its body
C14_Witness ==
  \E r1, r2 \in Reqs :
    /\ r1 # r2
    /\ pc[r1] = "verifying" /\ input[r1].stage = "none"
    /\ pc[r2] = "streaming" /\ chunks[r2] # <<>> /\ stream[r2].rest # <<>>
    /\ input[r1].ts # input[r2].ts
    /\ input[r1].sig # input[r2].sig

\* C15: in every state a request has had at most one terminal outcome:
\* its response is ended at most once, and then as the 401 'Invalid
\* headers', the 401 'Invalid signature' or the PONG; next() is called at
\* most once; no request is both answered by the gate and passed on; and
\* onBodyComplete runs at most once for it.
C15_AtMostOneOutcome ==
  \A r \in Reqs :
    /\ res[r].ends <= 1 /\ TimesDid(r, "end") = res[r].ends
    /\ res[r].ends = 1 =>
         \/ RejectedWith(r, InvalidHeaders)
         \/ RejectedWith(r, InvalidSignature)
         \/ Ponged(r)
    /\ res[r].ends = 0 => res[r] = FreshResponse
    /\ Len(nextCalls[r]) <= 1 /\ TimesDid(r, "next") = Len(nextCalls[r])
    /\ ~ (res[r] # FreshResponse /\ nextCalls[r] # <<>>)
    /\ Len(calls[r]) <= 1 /\ TimesDid(r, "verifyKey") = Len(calls[r])

\* one request has been answered with the PONG while another, a command,
\* has been passed on
C15_Witness ==
  \E r1, r2 \in Reqs :
    /\ pc[r1] = "done" /\ pc[r2] = "done"
    /\ Ponged(r2) /\ nextCalls[r2] = <<>>
    /\ nextCalls[r1] = <<Undefined>> /\ res[r1] = FreshResponse
    /\ Len(calls[r1]) = 1 /\ Len(calls[r2]) = 1

\* C16: every request the gate handles reaches exactly one terminal
\* outcome, a 401, the PONG or a next() call, once its stream has ended and
\* the verifier has returned: a request whose handler has nothing left to
\* run has been answered or passed on, and not both.
C16_ReachesOneOutcome ==
  \A r \in Reqs :
    pc[r] = "done" =>
      \/ res[r].ends = 1 /\ nextCalls[r] = <<>>
      \/ res[r].ends = 0 /\ Len(nextCalls[r]) = 1

\* C17 as the specification states it: the payload attached to req.body is
\* the JSON parse of the bytes given to the verifier, whatever it is.
C17_PayloadIsParse ==
  \A r \in Reqs :
    nextCalls[r] # <<>> =>
      /\ Verified(r, TRUE)
      /\ ParsedOf(r).ok
      /\ reqBody[r] = ParsedOf(r).val

\* C17: on every path the payload looked at for its type and attached to
\* req.body comes from the JSON parse of exactly the bytes the verifier
\* accepted: it is that parse, or {} in its place when the parse is falsy;
\* an object from an earlier stage is verified and parsed as its
\* re-serialization; a PONG is sent only when that parse is a PING.
C17_PayloadFromVerifiedBytes ==
  \A r \in Reqs :
    /\ nextCalls[r] # <<>> =>
         /\ Verified(r, TRUE)
         /\ ParsedOf(r).ok
         /\ reqBody[r] = IF Truthy(ParsedOf(r).val) THEN ParsedOf(r).val ELSE JSObj(<<>>)
         /\ GetProp(reqBody[r], TypeKey) # JSNum(1)
    /\ Ponged(r) =>
         /\ Verified(r, TRUE)
         /\ ParsedOf(r).ok
         /\ GetProp(ParsedOf(r).val, TypeKey) = JSNum(1)
    /\ (BodyOnArrival(r).k = "obj" /\ calls[r] # <<>>) =>
         calls[r][1].rawBody = Utf8Encode(JSONStringify(BodyOnArrival(r)))
    /\ nextCalls[r] = <<>> => reqBody[r] = BodyOnArrival(r)

\* a command that an earlier stage had parsed, with a character outside
\* ASCII in it, has been verified as its re-serialization and passed on
C17_Witness ==
  \E r \in Reqs :
    /\ pc[r] = "done"
    /\ input[r].stage = "json" /\ input[r].wire = BodyCommand
    /\ Verified(r, TRUE)
    /\ nextCalls[r] = <<Undefined>>
    /\ reqBody[r].k = "obj" /\ reqBody[r].o # <<>>

\* C18: a body whose signature verifies and that is JSON for a falsy
\* value - null, false, 0 or "" - neither fails nor is answered with a
\* PONG: req.body becomes the empty object, not the value, and next() is
\* called exactly once.
C18_FalsyBodyBecomesEmptyObject ==
  \A r \in Reqs :
    (/\ pc[r] = "done" /\ Verified(r, TRUE)
     /\ ParsedOf(r).ok /\ ~ Truthy(ParsedOf(r).val)) =>
      /\ reqBody[r] = JSObj(<<>>)
      /\ nextCalls[r] = <<Undefined>>
      /\ res[r] = FreshResponse
      /\ ~ unhandled[r]

\* the body null, read from the stream and verified, has been handled
C18_Witness ==
  \E r \in Reqs :
    /\ pc[r] = "done" /\ Verified(r, TRUE)
    /\ calls[r][1].rawBody = BodyNull
    /\ input[r].stage = "none"
    /\ Did(r, "next")

====
